---- MODULE Spec2Model ----
(***************************************************************************)
(* The interior-point driver of SANDTopOpt (SAND.cc): the barrier          *)
(* continuation loop and the watchdog line search of run(), with           *)
(* find_max_step, calculate_max_step_size, calculate_exact_merit,          *)
(* take_scaled_step and check_convergence.                                 *)
(*                                                                         *)
(* Numbers.  A double is a fixed-point integer, or an IEEE special value   *)
(* where the code can produce one (a division by a zero constraint norm):  *)
(*   - barrier_size and fraction_to_boundary count hundred-thousandths     *)
(*     (Unit), the l1 norm of a residual counts 1/ResidualUnit;            *)
(*   - a bisection step length counts 1/2^BisectionIters (BisectUnit), a   *)
(*     backtracking step length counts 1/2^MaxHalvings (HalvingUnit);      *)
(*   - the entries of the slack and slack-multiplier blocks count a unit   *)
(*     chosen so that every product of an entry of a Newton step with a    *)
(*     step length is again a whole number (Grid);                         *)
(*   - merit values count 1/HalvingUnit.                                   *)
(* With these units no operation of the driver rounds.                     *)
(*                                                                         *)
(* Vectors.  A BlockVector of the code has nine blocks over the mesh.  The *)
(* model keeps one entry of each of the four blocks the step-length rule   *)
(* reads, and, in place of the other blocks, what the finite-element       *)
(* integrals of the code make of the vector: the objective functional      *)
(* (objective), the l1 norms of the four multiplier blocks of its          *)
(* residual (constraint) and the l1 norm of its whole residual (rhs_l1).   *)
(* These three travel with the vector, so that evaluating the same vector  *)
(* twice gives the same numbers; they are inputs of the action that        *)
(* builds the vector.                                                      *)
(*                                                                         *)
(* Evaluation.  C++ evaluates an argument once, before the call.  The      *)
(* arithmetic on doubles is therefore written as functions, and a local of *)
(* an action is bound by \E over a one-element set.                        *)
(***************************************************************************)
EXTENDS Integers, Sequences, FiniteSets, TLC

(* ------------------------------------------------------------------ *)
(* Bounds of the model                                                 *)
(* ------------------------------------------------------------------ *)

\* stands for the literal 10000 of the two loop conditions of run()
IterationCap ==
  34

\* stands for the literal 50 of the bisection loop
BisectionIters ==
  2

\* stands for the literal 10 of the halving loop
MaxHalvings ==
  2

\* largest entry of a slack block the solver's steps may lead to, in Grid units
MaxEntry ==
  3

(* ------------------------------------------------------------------ *)
(* Units and program constants                                         *)
(* ------------------------------------------------------------------ *)

Unit == 10^5

BisectUnit == 2^BisectionIters

HalvingUnit == 2^MaxHalvings

Grid == BisectUnit * HalvingUnit

max_uphill_steps ==
  8

\* .0005
min_barrier_size == 5 * (Unit \div 10000)

\* 25
initial_barrier_size == 25 * Unit

\* .8 and .99999
min_fraction_to_boundary == 8 * (Unit \div 10)

max_fraction_to_boundary == Unit - 1

\* 1e-2
convergence_condition_inverse == 10 * 10

\* .0001, the perturbation of the finite difference and the descent requirement
descent_requirement_inverse == 10^4

\* the l1 norm of a residual is counted in 1/ResidualUnit
ResidualUnit == convergence_condition_inverse * Unit

(* ------------------------------------------------------------------ *)
(* double arithmetic with infinities and NaN                           *)
(* ------------------------------------------------------------------ *)

Num(n) == [c |-> "num", v |-> n]

PosInf == [c |-> "inf", v |-> 1]

NegInf == [c |-> "inf", v |-> -1]

NaN == [c |-> "nan", v |-> 0]

IsNum(a) == a.c = "num"

IsNaN(a) == a.c = "nan"

Sign(n) == IF n > 0 THEN 1 ELSE IF n < 0 THEN -1 ELSE 0

FSign(a) == IF a.c = "num" THEN Sign(a.v) ELSE a.v

\* the doubles of the model: a finite value, an infinity with its sign, or NaN
Doubles == [c : {"num", "inf", "nan"}, v : Int]

FNeg[a \in Doubles] == [c |-> a.c, v |-> 0 - a.v]

FAdd[a \in Doubles, b \in Doubles] ==
  IF IsNaN(a) \/ IsNaN(b) THEN NaN
  ELSE IF IsNum(a) /\ IsNum(b) THEN Num(a.v + b.v)
  ELSE IF IsNum(a) THEN b
  ELSE IF IsNum(b) THEN a
  ELSE IF a.v = b.v THEN a ELSE NaN

FSub[a \in Doubles, b \in Doubles] == FAdd[a, FNeg[b]]

\* a * b, the finite product counted in the units of a (b a whole number)
FMul[a \in Doubles, b \in Doubles] ==
  IF IsNaN(a) \/ IsNaN(b) THEN NaN
  ELSE IF IsNum(a) /\ IsNum(b) THEN Num(a.v * b.v)
  ELSE IF FSign(a) = 0 \/ FSign(b) = 0 THEN NaN
  ELSE IF FSign(a) = FSign(b) THEN PosInf ELSE NegInf

\* a / b for whole numbers a and b: x/0 is an infinity, 0/0 is NaN
FDiv(a, b) ==
  IF b # 0 THEN Num(a \div b)
  ELSE IF a > 0 THEN PosInf
  ELSE IF a < 0 THEN NegInf
  ELSE NaN

\* a < b; every comparison with NaN is false
FLt[a \in Doubles, b \in Doubles] ==
  IF IsNaN(a) \/ IsNaN(b) THEN FALSE
  ELSE IF IsNum(a) /\ IsNum(b) THEN a.v < b.v
  ELSE IF IsNum(a) THEN b.v = 1
  ELSE IF IsNum(b) THEN a.v = -1
  ELSE a.v < b.v

FGt[a \in Doubles, b \in Doubles] == FLt[b, a]

\* a * (num/den) for a positive factor num/den
FTimes[a \in Doubles, num \in Int, den \in Int] ==
  IF IsNum(a) THEN Num((a.v * num) \div den) ELSE a

(* ------------------------------------------------------------------ *)
(* BlockVector                                                         *)
(* ------------------------------------------------------------------ *)

\* the blocks the step-length rule reads
Entries(v) ==
  [density_lower_slack |-> v.density_lower_slack,
   density_lower_slack_multiplier |-> v.density_lower_slack_multiplier,
   density_upper_slack |-> v.density_upper_slack,
   density_upper_slack_multiplier |-> v.density_upper_slack_multiplier]

\* what the integrals of the code make of a vector
Integrals(v) ==
  [objective |-> v.objective, constraint |-> v.constraint, rhs_l1 |-> v.rhs_l1]

Vector(e, a) ==
  [density_lower_slack |-> e.density_lower_slack,
   density_lower_slack_multiplier |-> e.density_lower_slack_multiplier,
   density_upper_slack |-> e.density_upper_slack,
   density_upper_slack_multiplier |-> e.density_upper_slack_multiplier,
   objective |-> a.objective, constraint |-> a.constraint, rhs_l1 |-> a.rhs_l1]

ZeroStep ==
  [density_lower_slack |-> 0, density_lower_slack_multiplier |-> 0,
   density_upper_slack |-> 0, density_upper_slack_multiplier |-> 0]

\* state + (step_size * step), step_size counted in 1/unit
PlusScaled(state, step_size, unit, step) ==
  [density_lower_slack |->
     state.density_lower_slack + (step_size * step.density_lower_slack) \div unit,
   density_lower_slack_multiplier |->
     state.density_lower_slack_multiplier
       + (step_size * step.density_lower_slack_multiplier) \div unit,
   density_upper_slack |->
     state.density_upper_slack + (step_size * step.density_upper_slack) \div unit,
   density_upper_slack_multiplier |->
     state.density_upper_slack_multiplier
       + (step_size * step.density_upper_slack_multiplier) \div unit]

\* Vector<double>::is_non_negative on a one-entry block
is_non_negative(x) == x >= 0

(* ------------------------------------------------------------------ *)
(* calculate_max_step_size                                             *)
(* ------------------------------------------------------------------ *)

\* the conditionals without the comparison against max_fraction_to_boundary
fraction_to_boundary_unbounded_above(barrier_size) ==
  IF min_fraction_to_boundary < Unit - barrier_size
  THEN Unit - barrier_size
  ELSE min_fraction_to_boundary

fraction_to_boundary(barrier_size) ==
  IF min_fraction_to_boundary < Unit - barrier_size
  THEN IF Unit - barrier_size < max_fraction_to_boundary
       THEN Unit - barrier_size
       ELSE max_fraction_to_boundary
  ELSE min_fraction_to_boundary

\* an entry of (fraction_to_boundary * state) + (step_size * step),
\* counted in 1/(Unit * BisectUnit) of the entry's unit
state_test(tau, x, step_size, d) == tau * x * BisectUnit + step_size * d * Unit

\* accept_s with the test of the upper slack left out
accept_s_lower_only(tau, state, step_size_s, step) ==
  is_non_negative(state_test(tau, state.density_lower_slack, step_size_s,
                             step.density_lower_slack))

accept_s(tau, state, step_size_s, step) ==
  /\ is_non_negative(state_test(tau, state.density_lower_slack, step_size_s,
                                step.density_lower_slack))
  /\ is_non_negative(state_test(tau, state.density_upper_slack, step_size_s,
                                step.density_upper_slack))

\* accept_z with the test of the upper slack multiplier left out
accept_z_lower_only(tau, state, step_size_z, step) ==
  is_non_negative(state_test(tau, state.density_lower_slack_multiplier, step_size_z,
                             step.density_lower_slack_multiplier))

accept_z(tau, state, step_size_z, step) ==
  /\ is_non_negative(state_test(tau, state.density_lower_slack_multiplier, step_size_z,
                                step.density_lower_slack_multiplier))
  /\ is_non_negative(state_test(tau, state.density_upper_slack_multiplier, step_size_z,
                                step.density_upper_slack_multiplier))

\* the body of the loop moving an interval only when both tests agree
Halve_jointly(tau, state, step, b) ==
  LET step_size_s == (b.s_low + b.s_high) \div 2
      step_size_z == (b.z_low + b.z_high) \div 2
      both == /\ accept_s(tau, state, step_size_s, step)
              /\ accept_z(tau, state, step_size_z, step)
  IN [s_low  |-> IF both THEN step_size_s ELSE b.s_low,
      s_high |-> IF both THEN b.s_high ELSE step_size_s,
      z_low  |-> IF both THEN step_size_z ELSE b.z_low,
      z_high |-> IF both THEN b.z_high ELSE step_size_z]

\* the body of the bisection loop; b holds the four interval ends
Halve(tau, state, step, b) ==
  LET step_size_s == (b.s_low + b.s_high) \div 2
      step_size_z == (b.z_low + b.z_high) \div 2
      as == accept_s(tau, state, step_size_s, step)
      az == accept_z(tau, state, step_size_z, step)
  IN [s_low  |-> IF as THEN step_size_s ELSE b.s_low,
      s_high |-> IF as THEN b.s_high ELSE step_size_s,
      z_low  |-> IF az THEN step_size_z ELSE b.z_low,
      z_high |-> IF az THEN b.z_high ELSE step_size_z]

\* the bisection loop from iteration k on
RECURSIVE Bisect(_, _, _, _, _)
Bisect(tau, state, step, k, b) ==
  IF k >= BisectionIters THEN b
  ELSE CHOOSE ends \in {Bisect(tau, state, step, k + 1, halved) :
                          halved \in {Halve(tau, state, step, b)}} : TRUE

\* the function returning the high ends of the two intervals
calculate_max_step_size_high_ends(state, step, barrier_size) ==
  LET b == Bisect(fraction_to_boundary(barrier_size), state, step, 0,
                  [s_low |-> 0, s_high |-> BisectUnit, z_low |-> 0, z_high |-> BisectUnit])
  IN [first |-> b.s_high, second |-> b.z_high]

\* the pair {step_size_s_low, step_size_z_low}, counted in 1/BisectUnit
calculate_max_step_size(state, step, barrier_size) ==
  LET b == Bisect(fraction_to_boundary(barrier_size), state, step, 0,
                  [s_low |-> 0, s_high |-> BisectUnit, z_low |-> 0, z_high |-> BisectUnit])
  IN [first |-> b.s_low, second |-> b.z_low]

(* ------------------------------------------------------------------ *)
(* calculate_exact_merit, check_convergence                            *)
(* ------------------------------------------------------------------ *)

\* the merit of test_solution under the penalty multiplier in force
exact_merit(test_solution, penalty) ==
  LET objective_function_merit == Num(test_solution.objective)
      elasticity_constraint_merit == FMul[penalty, Num(test_solution.constraint[1])]
      filter_constraint_merit == FMul[penalty, Num(test_solution.constraint[2])]
      lower_slack_merit == FMul[penalty, Num(test_solution.constraint[3])]
      upper_slack_merit == FMul[penalty, Num(test_solution.constraint[4])]
  IN FAdd[FAdd[FAdd[FAdd[objective_function_merit, elasticity_constraint_merit],
                    filter_constraint_merit], lower_slack_merit], upper_slack_merit]

\* the test with <= in the place of <
check_convergence_inclusive(state, barrier_size) ==
  state.rhs_l1 * convergence_condition_inverse <= barrier_size * (ResidualUnit \div Unit)

\* test_rhs.l1_norm() < convergence_condition * barrier_size, both sides
\* counted in 1/ResidualUnit and multiplied by convergence_condition_inverse
check_convergence(state, barrier_size) ==
  state.rhs_l1 * convergence_condition_inverse < barrier_size * (ResidualUnit \div Unit)

(* ------------------------------------------------------------------ *)
(* the penalty multiplier update of find_max_step                      *)
(* ------------------------------------------------------------------ *)

\* (grad_part + .5 * hess_part)/(.05 * constraint_norm), numerator and
\* denominator both multiplied by 20
test_penalty_multiplier(hess_part, grad_part, constraint_norm) ==
  IF hess_part > 0
  THEN FDiv(20 * grad_part + 10 * hess_part, constraint_norm)
  ELSE FDiv(20 * grad_part, constraint_norm)

\* the update without its test: the trial value is always adopted
penalty_multiplier_overwritten(penalty, hess_part, grad_part, constraint_norm) ==
  test_penalty_multiplier(hess_part, grad_part, constraint_norm)

updated_penalty_multiplier(penalty, hess_part, grad_part, constraint_norm) ==
  LET trial == test_penalty_multiplier(hess_part, grad_part, constraint_norm)
  IN IF FGt[trial, penalty] THEN trial ELSE penalty

\* max_step: the primal blocks scaled by step_size_s, the dual ones by step_size_z
max_step(state, step, barrier_size) ==
  LET max_step_sizes == calculate_max_step_size(state, step, barrier_size)
      step_size_s == max_step_sizes.first
      step_size_z == max_step_sizes.second
  IN [density_lower_slack |-> (step_size_s * step.density_lower_slack) \div BisectUnit,
      density_lower_slack_multiplier |->
        (step_size_z * step.density_lower_slack_multiplier) \div BisectUnit,
      density_upper_slack |-> (step_size_s * step.density_upper_slack) \div BisectUnit,
      density_upper_slack_multiplier |->
        (step_size_z * step.density_upper_slack_multiplier) \div BisectUnit]

(* ------------------------------------------------------------------ *)
(* the barrier update of run()                                         *)
(* ------------------------------------------------------------------ *)

\* the fifth root of x/Unit, rounded down to a twentieth
RootResolution == 4 * 5

FifthRoot(x) ==
  LET t == x * (RootResolution^5 \div Unit)
  IN CHOOSE r \in 0..(2 * RootResolution) : r^5 <= t /\ t < (r + 1)^5

\* std::pow(barrier_size, barrier_size_exponent) for the exponent 1.2:
\* barrier_size times its fifth root
pow_barrier(barrier_size) == (barrier_size * FifthRoot(barrier_size)) \div RootResolution

\* barrier_size * barrier_size_multiplier, the multiplier .8
times_multiplier(barrier_size) == (barrier_size * 8) \div 10

\* the update without the comparisons against min_barrier_size
next_barrier_size_unfloored(barrier_size) ==
  IF times_multiplier(barrier_size) < pow_barrier(barrier_size)
  THEN times_multiplier(barrier_size)
  ELSE pow_barrier(barrier_size)

\* the update with the first comparison turned around
next_barrier_size_larger_candidate(barrier_size) ==
  IF times_multiplier(barrier_size) > pow_barrier(barrier_size)
  THEN IF times_multiplier(barrier_size) < min_barrier_size
       THEN min_barrier_size
       ELSE times_multiplier(barrier_size)
  ELSE IF pow_barrier(barrier_size) < min_barrier_size
       THEN min_barrier_size
       ELSE pow_barrier(barrier_size)

next_barrier_size(barrier_size) ==
  IF times_multiplier(barrier_size) < pow_barrier(barrier_size)
  THEN IF times_multiplier(barrier_size) < min_barrier_size
       THEN min_barrier_size
       ELSE times_multiplier(barrier_size)
  ELSE IF pow_barrier(barrier_size) < min_barrier_size
       THEN min_barrier_size
       ELSE pow_barrier(barrier_size)

(* ------------------------------------------------------------------ *)
(* The state of the program                                            *)
(* ------------------------------------------------------------------ *)

VARIABLES
  pc,                  \* where run() stands
  barrier_size, iteration_number, converged, found_step, k,   \* locals of run()
  current_state, current_step, watchdog_state, watchdog_step,
  goal_merit, stretch_state,
  watchdog_probe,      \* the integrals of watchdog_state + .0001 * watchdog_step
  penalty_multiplier, nonlinear_solution, linear_solution,    \* members
  assembled,           \* what find_max_step reads from system_matrix and system_rhs
  ts,                  \* the frame of take_scaled_step while it runs
  solver_calls         \* the calls of solve() the timer has counted for "solver"

vars ==
  <<pc, barrier_size, iteration_number, converged, found_step, k, current_state,
    current_step, watchdog_state, watchdog_step, goal_merit, stretch_state,
    watchdog_probe, penalty_multiplier, nonlinear_solution, linear_solution,
    assembled, ts, solver_calls>>

NoIntegrals == [objective |-> 0, constraint |-> <<0, 0, 0, 0>>, rhs_l1 |-> 0]

NoVector == Vector(ZeroStep, NoIntegrals)

NoFrame ==
  [state |-> NoVector, max_step |-> ZeroStep, probe |-> NoIntegrals, k |-> 0,
   step_size |-> 0, found |-> FALSE, tested |-> NoIntegrals, caller |-> "none"]

NotAssembled == [hess_part |-> 0, grad_part |-> 0, constraint_norm |-> 0]

\* setup_block_system: slacks .5 (Grid), slack multipliers 50 (2 * Grid),
\* displacement 0, so the objective is 0 and only the elasticity residual is not
InitialSolution ==
  Vector([density_lower_slack |-> Grid, density_lower_slack_multiplier |-> 2 * Grid,
          density_upper_slack |-> Grid, density_upper_slack_multiplier |-> 2 * Grid],
         [objective |-> 0, constraint |-> <<HalvingUnit, 0, 0, 0>>, rhs_l1 |-> ResidualUnit])

Init ==
  /\ pc = "outer_test"
  /\ barrier_size = initial_barrier_size
  /\ iteration_number = 0
  /\ converged = FALSE
  /\ found_step = FALSE
  /\ k = 0
  /\ nonlinear_solution = InitialSolution
  /\ current_state = InitialSolution
  /\ current_step = ZeroStep
  /\ watchdog_state = NoVector
  /\ watchdog_step = ZeroStep
  /\ watchdog_probe = NoIntegrals
  /\ goal_merit = Num(0)
  /\ stretch_state = NoVector
  /\ penalty_multiplier = Num(1)
  /\ linear_solution = ZeroStep
  /\ assembled = NotAssembled
  /\ ts = NoFrame
  /\ solver_calls = iteration_number

(* ------------------------------------------------------------------ *)
(* find_max_step and the calls of calculate_exact_merit                *)
(* ------------------------------------------------------------------ *)

\* a merit that reads iteration_number as well
calculate_exact_merit_counting(test_solution, barrier) ==
  FAdd[exact_merit(test_solution, penalty_multiplier), Num(iteration_number)]

calculate_exact_merit(test_solution, barrier) ==
  exact_merit(test_solution, penalty_multiplier)

\* the sum of the maximum norms of the four multiplier blocks of system_rhs,
\* which assemble_system computes as calculate_test_rhs does; a block of the
\* model has one entry, so its maximum norm is its l1 norm
constraint_norm(state) ==
  state.constraint[1] + state.constraint[2] + state.constraint[3] + state.constraint[4]

\* what one call leaves behind: the members it assigns and the step it returns
find_max_step(state, barrier, penalty, step, hess_part, grad_part) ==
  [nonlinear_solution |-> state,
   linear_solution |-> step,
   assembled |-> [hess_part |-> hess_part, grad_part |-> grad_part,
                  constraint_norm |-> constraint_norm(state)],
   penalty_multiplier |->
     updated_penalty_multiplier(penalty, hess_part, grad_part, constraint_norm(state)),
   max_step |-> max_step(state, step, barrier)]

\* (merit(probe) - merit(state))/.0001
merit_derivative(state, probe, penalty) ==
  FTimes[FSub[exact_merit(probe, penalty), exact_merit(state, penalty)],
         descent_requirement_inverse, 1]

\* the required merit without the factor descent_requirement
required_merit_undamped(state, probe, penalty, step_size, unit) ==
  FAdd[exact_merit(state, penalty),
       FTimes[merit_derivative(state, probe, penalty), step_size, unit]]

\* merit(state) + step_size * descent_requirement * merit_derivative
required_merit(state, probe, penalty, step_size, unit) ==
  FAdd[exact_merit(state, penalty),
       FTimes[FTimes[merit_derivative(state, probe, penalty), 1,
                     descent_requirement_inverse], step_size, unit]]

\* the entries a step of the solver may lead to stay within the model's range
InRange(state, step) ==
  /\ state.density_lower_slack + step.density_lower_slack <= MaxEntry * Grid
  /\ state.density_upper_slack + step.density_upper_slack <= MaxEntry * Grid
  /\ state.density_lower_slack_multiplier + step.density_lower_slack_multiplier
       <= MaxEntry * Grid
  /\ state.density_upper_slack_multiplier + step.density_upper_slack_multiplier
       <= MaxEntry * Grid

(* ------------------------------------------------------------------ *)
(* run()                                                               *)
(* ------------------------------------------------------------------ *)

\* the outer loop's condition without the test of iteration_number
OuterTest_uncapped ==
  /\ pc = "outer_test"
  /\ IF barrier_size > min_barrier_size \/ ~check_convergence(current_state, barrier_size)
     THEN pc' = "inner_test" /\ converged' = FALSE
     ELSE pc' = "done" /\ UNCHANGED converged
  /\ UNCHANGED <<solver_calls, barrier_size, iteration_number, found_step, k, current_state,
                 current_step, watchdog_state, watchdog_step, goal_merit, stretch_state,
                 watchdog_probe, penalty_multiplier, nonlinear_solution,
                 linear_solution, assembled, ts>>

\* the outer loop's condition with && in the place of ||
OuterTest_conjunction ==
  /\ pc = "outer_test"
  /\ IF (barrier_size > min_barrier_size /\ ~check_convergence(current_state, barrier_size))
        /\ iteration_number < IterationCap
     THEN pc' = "inner_test" /\ converged' = FALSE
     ELSE pc' = "done" /\ UNCHANGED converged
  /\ UNCHANGED <<solver_calls, barrier_size, iteration_number, found_step, k, current_state,
                 current_step, watchdog_state, watchdog_step, goal_merit, stretch_state,
                 watchdog_probe, penalty_multiplier, nonlinear_solution,
                 linear_solution, assembled, ts>>

\* the outer loop with converged declared outside of it
OuterTest_keeping_converged ==
  /\ pc = "outer_test"
  /\ IF (barrier_size > min_barrier_size \/ ~check_convergence(current_state, barrier_size))
        /\ iteration_number < IterationCap
     THEN pc' = "inner_test" /\ UNCHANGED converged
     ELSE pc' = "done" /\ UNCHANGED converged
  /\ UNCHANGED <<solver_calls, barrier_size, iteration_number, found_step, k, current_state,
                 current_step, watchdog_state, watchdog_step, goal_merit, stretch_state,
                 watchdog_probe, penalty_multiplier, nonlinear_solution,
                 linear_solution, assembled, ts>>

\* the condition of the outer while loop
OuterTest ==
  /\ pc = "outer_test"
  /\ IF (barrier_size > min_barrier_size \/ ~check_convergence(current_state, barrier_size))
        /\ iteration_number < IterationCap
     THEN pc' = "inner_test" /\ converged' = FALSE
     ELSE pc' = "done" /\ UNCHANGED converged
  /\ UNCHANGED <<solver_calls, barrier_size, iteration_number, found_step, k, current_state,
                 current_step, watchdog_state, watchdog_step, goal_merit, stretch_state,
                 watchdog_probe, penalty_multiplier, nonlinear_solution,
                 linear_solution, assembled, ts>>

\* the inner loop's condition without the test of iteration_number
InnerTest_uncapped ==
  /\ pc = "inner_test"
  /\ IF ~converged
     THEN /\ pc' = "speculate"
          /\ found_step' = FALSE
          /\ watchdog_state' = current_state
          /\ k' = 0
     ELSE /\ pc' = "barrier_update"
          /\ UNCHANGED <<found_step, watchdog_state, k>>
  /\ UNCHANGED <<solver_calls, barrier_size, iteration_number, converged, current_state,
                 current_step, watchdog_step, goal_merit, stretch_state,
                 watchdog_probe, penalty_multiplier, nonlinear_solution,
                 linear_solution, assembled, ts>>

\* the condition of the inner while loop and the head of its body
InnerTest ==
  /\ pc = "inner_test"
  /\ IF ~converged /\ iteration_number < IterationCap
     THEN /\ pc' = "speculate"
          /\ found_step' = FALSE
          /\ watchdog_state' = current_state
          /\ k' = 0
     ELSE /\ pc' = "barrier_update"
          /\ UNCHANGED <<found_step, watchdog_state, k>>
  /\ UNCHANGED <<solver_calls, barrier_size, iteration_number, converged, current_state,
                 current_step, watchdog_step, goal_merit, stretch_state,
                 watchdog_probe, penalty_multiplier, nonlinear_solution,
                 linear_solution, assembled, ts>>

\* a pass of the for loop that counts k iterations in the place of k + 1
Speculate_counting_k(step, hess_part, grad_part, integrals, probe) ==
  /\ pc = "speculate"
  /\ InRange(current_state, step)
  /\ \E fms \in {find_max_step(current_state, barrier_size, penalty_multiplier,
                                step, hess_part, grad_part)} :
     \E advanced \in {Vector(PlusScaled(current_state, 1, 1, fms.max_step), integrals)} :
     \E the_probe \in {IF k = 0 THEN probe ELSE watchdog_probe} :
     \E current_merit \in {exact_merit(advanced, fms.penalty_multiplier)} :
     \E goal \in {required_merit(watchdog_state, the_probe, fms.penalty_multiplier, 1, 1)} :
        /\ nonlinear_solution' = fms.nonlinear_solution
        /\ linear_solution' = fms.linear_solution
        /\ assembled' = fms.assembled
        /\ penalty_multiplier' = fms.penalty_multiplier
        /\ current_step' = fms.max_step
        /\ watchdog_step' = IF k = 0 THEN fms.max_step ELSE watchdog_step
        /\ watchdog_probe' = the_probe
        /\ current_state' = advanced
        /\ goal_merit' = goal
        /\ IF FLt[current_merit, goal]
           THEN /\ iteration_number' = iteration_number + k
                /\ found_step' = TRUE
                /\ pc' = "end_cycle"
                /\ UNCHANGED k
           ELSE /\ k' = k + 1
                /\ pc' = IF k + 1 < max_uphill_steps THEN "speculate" ELSE "backtrack"
                /\ UNCHANGED <<iteration_number, found_step>>
  /\ solver_calls' = solver_calls + 1
  /\ UNCHANGED <<barrier_size, converged, watchdog_state, stretch_state, ts>>

\* a pass of the for loop with k < max_uphill_steps - 1 for its condition
Speculate_one_short(step, hess_part, grad_part, integrals, probe) ==
  /\ pc = "speculate"
  /\ InRange(current_state, step)
  /\ \E fms \in {find_max_step(current_state, barrier_size, penalty_multiplier,
                                step, hess_part, grad_part)} :
     \E advanced \in {Vector(PlusScaled(current_state, 1, 1, fms.max_step), integrals)} :
     \E the_probe \in {IF k = 0 THEN probe ELSE watchdog_probe} :
     \E current_merit \in {exact_merit(advanced, fms.penalty_multiplier)} :
     \E goal \in {required_merit(watchdog_state, the_probe, fms.penalty_multiplier, 1, 1)} :
        /\ nonlinear_solution' = fms.nonlinear_solution
        /\ linear_solution' = fms.linear_solution
        /\ assembled' = fms.assembled
        /\ penalty_multiplier' = fms.penalty_multiplier
        /\ current_step' = fms.max_step
        /\ watchdog_step' = IF k = 0 THEN fms.max_step ELSE watchdog_step
        /\ watchdog_probe' = the_probe
        /\ current_state' = advanced
        /\ goal_merit' = goal
        /\ IF FLt[current_merit, goal]
           THEN /\ iteration_number' = iteration_number + k + 1
                /\ found_step' = TRUE
                /\ pc' = "end_cycle"
                /\ UNCHANGED k
           ELSE /\ k' = k + 1
                /\ pc' = IF k + 1 < max_uphill_steps - 1 THEN "speculate" ELSE "backtrack"
                /\ UNCHANGED <<iteration_number, found_step>>
  /\ solver_calls' = solver_calls + 1
  /\ UNCHANGED <<barrier_size, converged, watchdog_state, stretch_state, ts>>

\* a pass of the for loop that saves every step as the watchdog step
Speculate_saving_every_step(step, hess_part, grad_part, integrals, probe) ==
  /\ pc = "speculate"
  /\ InRange(current_state, step)
  /\ \E fms \in {find_max_step(current_state, barrier_size, penalty_multiplier,
                                step, hess_part, grad_part)} :
     \E advanced \in {Vector(PlusScaled(current_state, 1, 1, fms.max_step), integrals)} :
     \E the_probe \in {IF k = 0 THEN probe ELSE watchdog_probe} :
     \E current_merit \in {exact_merit(advanced, fms.penalty_multiplier)} :
     \E goal \in {required_merit(watchdog_state, the_probe, fms.penalty_multiplier, 1, 1)} :
        /\ nonlinear_solution' = fms.nonlinear_solution
        /\ linear_solution' = fms.linear_solution
        /\ assembled' = fms.assembled
        /\ penalty_multiplier' = fms.penalty_multiplier
        /\ current_step' = fms.max_step
        /\ watchdog_step' = fms.max_step
        /\ watchdog_probe' = the_probe
        /\ current_state' = advanced
        /\ goal_merit' = goal
        /\ IF FLt[current_merit, goal]
           THEN /\ iteration_number' = iteration_number + k + 1
                /\ found_step' = TRUE
                /\ pc' = "end_cycle"
                /\ UNCHANGED k
           ELSE /\ k' = k + 1
                /\ pc' = IF k + 1 < max_uphill_steps THEN "speculate" ELSE "backtrack"
                /\ UNCHANGED <<iteration_number, found_step>>
  /\ solver_calls' = solver_calls + 1
  /\ UNCHANGED <<barrier_size, converged, watchdog_state, stretch_state, ts>>

\* one pass of the for loop over k
Speculate(step, hess_part, grad_part, integrals, probe) ==
  /\ pc = "speculate"
  /\ InRange(current_state, step)
  /\ \E fms \in {find_max_step(current_state, barrier_size, penalty_multiplier,
                                step, hess_part, grad_part)} :
     \E advanced \in {Vector(PlusScaled(current_state, 1, 1, fms.max_step), integrals)} :
     \E the_probe \in {IF k = 0 THEN probe ELSE watchdog_probe} :
     \E current_merit \in {exact_merit(advanced, fms.penalty_multiplier)} :
     \E goal \in {required_merit(watchdog_state, the_probe, fms.penalty_multiplier, 1, 1)} :
        /\ nonlinear_solution' = fms.nonlinear_solution
        /\ linear_solution' = fms.linear_solution
        /\ assembled' = fms.assembled
        /\ penalty_multiplier' = fms.penalty_multiplier
        /\ current_step' = fms.max_step
        /\ watchdog_step' = IF k = 0 THEN fms.max_step ELSE watchdog_step
        /\ watchdog_probe' = the_probe
        /\ current_state' = advanced
        /\ goal_merit' = goal
        /\ IF FLt[current_merit, goal]
           THEN /\ iteration_number' = iteration_number + k + 1
                /\ found_step' = TRUE
                /\ pc' = "end_cycle"
                /\ UNCHANGED k
           ELSE /\ k' = k + 1
                /\ pc' = IF k + 1 < max_uphill_steps THEN "speculate" ELSE "backtrack"
                /\ UNCHANGED <<iteration_number, found_step>>
  /\ solver_calls' = solver_calls + 1
  /\ UNCHANGED <<barrier_size, converged, watchdog_state, stretch_state, ts>>

\* the backtracking with goal_merit computed again after its find_max_step
Backtrack_recomputing_goal(step, hess_part, grad_part, probe) ==
  /\ pc = "backtrack"
  /\ InRange(current_state, step)
  /\ \E fms \in {find_max_step(current_state, barrier_size, penalty_multiplier,
                                step, hess_part, grad_part)} :
        /\ nonlinear_solution' = fms.nonlinear_solution
        /\ linear_solution' = fms.linear_solution
        /\ assembled' = fms.assembled
        /\ penalty_multiplier' = fms.penalty_multiplier
        /\ current_step' = fms.max_step
        /\ goal_merit' = required_merit(watchdog_state, watchdog_probe,
                                         fms.penalty_multiplier, 1, 1)
        /\ ts' = [state |-> current_state, max_step |-> fms.max_step, probe |-> probe,
                  k |-> 0, step_size |-> HalvingUnit, found |-> FALSE,
                  tested |-> NoIntegrals, caller |-> "current_state"]
  /\ pc' = "take_scaled_step"
  /\ solver_calls' = solver_calls + 1
  /\ UNCHANGED <<barrier_size, iteration_number, converged, found_step, k,
                 current_state, watchdog_state, watchdog_step,
                 stretch_state, watchdog_probe>>

\* if (!found_step): the step from the end of the watchdog, and the call
\* take_scaled_step(current_state, current_step, ...)
Backtrack(step, hess_part, grad_part, probe) ==
  /\ pc = "backtrack"
  /\ InRange(current_state, step)
  /\ \E fms \in {find_max_step(current_state, barrier_size, penalty_multiplier,
                                step, hess_part, grad_part)} :
        /\ nonlinear_solution' = fms.nonlinear_solution
        /\ linear_solution' = fms.linear_solution
        /\ assembled' = fms.assembled
        /\ penalty_multiplier' = fms.penalty_multiplier
        /\ current_step' = fms.max_step
        /\ ts' = [state |-> current_state, max_step |-> fms.max_step, probe |-> probe,
                  k |-> 0, step_size |-> HalvingUnit, found |-> FALSE,
                  tested |-> NoIntegrals, caller |-> "current_state"]
  /\ pc' = "take_scaled_step"
  /\ solver_calls' = solver_calls + 1
  /\ UNCHANGED <<barrier_size, iteration_number, converged, found_step, k,
                 current_state, watchdog_state, watchdog_step, goal_merit,
                 stretch_state, watchdog_probe>>

\* the for loop of take_scaled_step with k <= 10 in the place of k < 10
TakeScaledStepPass_once_more(integrals) ==
  /\ pc = "take_scaled_step"
  /\ \E trial \in {Vector(PlusScaled(ts.state, ts.step_size, HalvingUnit, ts.max_step),
                            integrals)} :
        IF FLt[exact_merit(trial, penalty_multiplier),
               required_merit(ts.state, ts.probe, penalty_multiplier,
                              ts.step_size, HalvingUnit)]
        THEN /\ ts' = [ts EXCEPT !.found = TRUE, !.tested = integrals]
             /\ pc' = "return_scaled_step"
        ELSE /\ ts' = [ts EXCEPT !.step_size = ts.step_size \div 2, !.k = ts.k + 1]
             /\ pc' = IF ts.k + 1 <= MaxHalvings
                      THEN "take_scaled_step" ELSE "return_scaled_step"
  /\ UNCHANGED <<solver_calls, barrier_size, iteration_number, converged, found_step, k,
                 current_state, current_step, watchdog_state, watchdog_step,
                 goal_merit, stretch_state, watchdog_probe, penalty_multiplier,
                 nonlinear_solution, linear_solution, assembled>>

\* one pass of the for loop of take_scaled_step
TakeScaledStepPass(integrals) ==
  /\ pc = "take_scaled_step"
  /\ \E trial \in {Vector(PlusScaled(ts.state, ts.step_size, HalvingUnit, ts.max_step),
                            integrals)} :
        IF FLt[exact_merit(trial, penalty_multiplier),
               required_merit(ts.state, ts.probe, penalty_multiplier,
                              ts.step_size, HalvingUnit)]
        THEN /\ ts' = [ts EXCEPT !.found = TRUE, !.tested = integrals]
             /\ pc' = "return_scaled_step"
        ELSE /\ ts' = [ts EXCEPT !.step_size = ts.step_size \div 2, !.k = ts.k + 1]
             /\ pc' = IF ts.k + 1 < MaxHalvings
                      THEN "take_scaled_step" ELSE "return_scaled_step"
  /\ UNCHANGED <<solver_calls, barrier_size, iteration_number, converged, found_step, k,
                 current_state, current_step, watchdog_state, watchdog_step,
                 goal_merit, stretch_state, watchdog_probe, penalty_multiplier,
                 nonlinear_solution, linear_solution, assembled>>

\* the return with the third branch counting max_uphill_steps + 1 iterations
TakeScaledStepReturn_same_count(integrals) ==
  /\ pc = "return_scaled_step"
  /\ integrals = (IF ts.found THEN ts.tested ELSE integrals)
  /\ \E returned \in {Vector(PlusScaled(ts.state, ts.step_size, HalvingUnit, ts.max_step),
                               integrals)} :
        CASE ts.caller = "current_state" ->
               /\ stretch_state' = returned
               /\ pc' = "decide"
               /\ UNCHANGED <<current_state, iteration_number>>
          [] ts.caller = "watchdog_state" ->
               /\ current_state' = returned
               /\ iteration_number' = iteration_number + max_uphill_steps + 1
               /\ pc' = "end_cycle"
               /\ UNCHANGED stretch_state
          [] OTHER ->
               /\ current_state' = returned
               /\ iteration_number' = iteration_number + max_uphill_steps + 1
               /\ pc' = "end_cycle"
               /\ UNCHANGED stretch_state
  /\ ts' = NoFrame
  /\ UNCHANGED <<solver_calls, barrier_size, converged, found_step, k, current_step,
                 watchdog_state, watchdog_step, goal_merit, watchdog_probe,
                 penalty_multiplier, nonlinear_solution, linear_solution,
                 assembled>>

\* return state + (step_size * max_step), and what the caller does with it
TakeScaledStepReturn(integrals) ==
  /\ pc = "return_scaled_step"
  /\ integrals = (IF ts.found THEN ts.tested ELSE integrals)
  /\ \E returned \in {Vector(PlusScaled(ts.state, ts.step_size, HalvingUnit, ts.max_step),
                               integrals)} :
        CASE ts.caller = "current_state" ->
               /\ stretch_state' = returned
               /\ pc' = "decide"
               /\ UNCHANGED <<current_state, iteration_number>>
          [] ts.caller = "watchdog_state" ->
               /\ current_state' = returned
               /\ iteration_number' = iteration_number + max_uphill_steps + 1
               /\ pc' = "end_cycle"
               /\ UNCHANGED stretch_state
          [] OTHER ->
               /\ current_state' = returned
               /\ iteration_number' = iteration_number + max_uphill_steps + 2
               /\ pc' = "end_cycle"
               /\ UNCHANGED stretch_state
  /\ ts' = NoFrame
  /\ UNCHANGED <<solver_calls, barrier_size, converged, found_step, k, current_step,
                 watchdog_state, watchdog_step, goal_merit, watchdog_probe,
                 penalty_multiplier, nonlinear_solution, linear_solution,
                 assembled>>

\* the condition with && in the place of ||
accept_stretch_state_both ==
  /\ FLt[calculate_exact_merit(current_state, barrier_size),
         calculate_exact_merit(watchdog_state, barrier_size)]
  /\ FLt[calculate_exact_merit(stretch_state, barrier_size), goal_merit]

\* the condition without its second operand
accept_stretch_state_by_current_only ==
  FLt[calculate_exact_merit(current_state, barrier_size),
      calculate_exact_merit(watchdog_state, barrier_size)]

\* the condition under which the scaled step from the end of the watchdog is taken
accept_stretch_state ==
  \/ FLt[calculate_exact_merit(current_state, barrier_size),
         calculate_exact_merit(watchdog_state, barrier_size)]
  \/ FLt[calculate_exact_merit(stretch_state, barrier_size), goal_merit]

\* the second test with < in the place of >
stretch_state_is_better ==
  FLt[calculate_exact_merit(stretch_state, barrier_size),
      calculate_exact_merit(watchdog_state, barrier_size)]

\* the second test with >= in the place of >
stretch_state_is_no_better ==
  ~FLt[calculate_exact_merit(stretch_state, barrier_size),
       calculate_exact_merit(watchdog_state, barrier_size)]

\* the test under which the scaled step from the beginning of the watchdog is taken
stretch_state_is_worse ==
  FGt[calculate_exact_merit(stretch_state, barrier_size),
      calculate_exact_merit(watchdog_state, barrier_size)]

\* the three branches after stretch_state is known
Decide(step, hess_part, grad_part, probe) ==
  /\ pc = "decide"
  /\ IF accept_stretch_state
     THEN /\ current_state' = stretch_state
          /\ iteration_number' = iteration_number + max_uphill_steps + 1
          /\ pc' = "end_cycle"
          /\ UNCHANGED <<solver_calls, ts, penalty_multiplier, nonlinear_solution, linear_solution,
                         assembled>>
     ELSE IF stretch_state_is_worse
     THEN /\ ts' = [state |-> watchdog_state, max_step |-> watchdog_step,
                    probe |-> watchdog_probe, k |-> 0, step_size |-> HalvingUnit,
                    found |-> FALSE, tested |-> NoIntegrals,
                    caller |-> "watchdog_state"]
          /\ pc' = "take_scaled_step"
          /\ UNCHANGED <<solver_calls, current_state, iteration_number, penalty_multiplier,
                         nonlinear_solution, linear_solution, assembled>>
     ELSE /\ InRange(stretch_state, step)
          /\ \E fms \in {find_max_step(stretch_state, barrier_size, penalty_multiplier,
                                        step, hess_part, grad_part)} :
                /\ nonlinear_solution' = fms.nonlinear_solution
                /\ linear_solution' = fms.linear_solution
                /\ assembled' = fms.assembled
                /\ penalty_multiplier' = fms.penalty_multiplier
                /\ ts' = [state |-> stretch_state, max_step |-> fms.max_step,
                          probe |-> probe, k |-> 0, step_size |-> HalvingUnit,
                          found |-> FALSE, tested |-> NoIntegrals,
                          caller |-> "stretch_state"]
          /\ pc' = "take_scaled_step"
          /\ solver_calls' = solver_calls + 1
          /\ UNCHANGED <<current_state, iteration_number>>
  /\ UNCHANGED <<barrier_size, converged, found_step, k, current_step,
                 watchdog_state, watchdog_step, goal_merit, stretch_state,
                 watchdog_probe>>

\* the vector output_results hands to DataOut and writes to solution<j>.vtu
output_results == nonlinear_solution

\* the vector whose density block write_as_stl reads
write_as_stl == nonlinear_solution

\* the end of a cycle with a check_convergence that assembles the system at
\* the state it is given, in the place of calling calculate_test_rhs
EndCycle_assembling ==
  /\ pc = "end_cycle"
  /\ converged' = check_convergence(current_state, barrier_size)
  /\ nonlinear_solution' = current_state
  /\ assembled' = [assembled EXCEPT !.constraint_norm = constraint_norm(current_state)]
  /\ found_step' = FALSE
  /\ k' = 0
  /\ watchdog_state' = NoVector
  /\ watchdog_step' = ZeroStep
  /\ watchdog_probe' = NoIntegrals
  /\ goal_merit' = Num(0)
  /\ stretch_state' = NoVector
  /\ pc' = "inner_test"
  /\ UNCHANGED <<solver_calls, barrier_size, iteration_number, current_state, current_step,
                 penalty_multiplier, linear_solution, ts>>

\* output_results(iteration_number), which writes nonlinear_solution to a file;
\* converged = check_convergence(...); the locals of the loop body go out of scope
EndCycle ==
  /\ pc = "end_cycle"
  /\ converged' = check_convergence(current_state, barrier_size)
  /\ found_step' = FALSE
  /\ k' = 0
  /\ watchdog_state' = NoVector
  /\ watchdog_step' = ZeroStep
  /\ watchdog_probe' = NoIntegrals
  /\ goal_merit' = Num(0)
  /\ stretch_state' = NoVector
  /\ pc' = "inner_test"
  /\ UNCHANGED <<solver_calls, barrier_size, iteration_number, current_state, current_step,
                 penalty_multiplier, nonlinear_solution, linear_solution, assembled, ts>>

\* the update of barrier_size at the end of the outer loop body
BarrierUpdate ==
  /\ pc = "barrier_update"
  /\ barrier_size' = next_barrier_size(barrier_size)
  /\ pc' = "outer_test"
  /\ UNCHANGED <<solver_calls, iteration_number, converged, found_step, k, current_state,
                 current_step, watchdog_state, watchdog_step, goal_merit, stretch_state,
                 watchdog_probe, penalty_multiplier, nonlinear_solution,
                 linear_solution, assembled, ts>>

\* write_as_stl() after the loop, which reads nonlinear_solution
WriteAsStl ==
  /\ pc = "done"
  /\ pc' = "exit"
  /\ UNCHANGED <<solver_calls, barrier_size, iteration_number, converged, found_step, k,
                 current_state, current_step, watchdog_state, watchdog_step,
                 goal_merit, stretch_state, watchdog_probe, penalty_multiplier,
                 nonlinear_solution, linear_solution, assembled, ts>>

(* ------------------------------------------------------------------ *)
(* The collaborators: what the solver and the integrals may return     *)
(* ------------------------------------------------------------------ *)

Step(a, b, c, d) ==
  [density_lower_slack |-> a, density_lower_slack_multiplier |-> b,
   density_upper_slack |-> c, density_upper_slack_multiplier |-> d]

\* a vector's integrals: the residual's l1 norm is no smaller than the norms
\* of the multiplier blocks it contains
Measured(objective, constraint, rhs_l1) ==
  [objective |-> objective, constraint |-> constraint, rhs_l1 |-> rhs_l1]

NoResidual == <<0, 0, 0, 0>>

ElasticityResidual == <<HalvingUnit, 0, 0, 0>>

\* one step of run(), the collaborators answering from env
NextWith(env) ==
  \/ OuterTest
  \/ InnerTest
  \/ \E step \in env.steps, n \in env.newton, i \in env.integrals, p \in env.probes :
        Speculate(step, n[1], n[2], i, p)
  \/ \E step \in env.steps, n \in env.newton, p \in env.probes :
        Backtrack(step, n[1], n[2], p)
  \/ \E i \in env.integrals : TakeScaledStepPass(i)
  \/ \E i \in env.integrals : TakeScaledStepReturn(i)
  \/ \E step \in env.steps, n \in env.newton, p \in env.probes :
        Decide(step, n[1], n[2], p)
  \/ EndCycle
  \/ BarrierUpdate
  \/ WriteAsStl

(* ------------------------------------------------------------------ *)
(* run() from its first line                                           *)
(* ------------------------------------------------------------------ *)

\* the solver returns no change; a vector is accepted with no residual,
\* accepted with a residual that passes check_convergence at every
\* barrier_size but the smallest, or not accepted
RunEnv ==
  [steps |-> {ZeroStep},
   newton |-> {<<0, 0>>},
   integrals |-> {Measured(0, NoResidual, 0), Measured(0, NoResidual, min_barrier_size),
                  Measured(2 * HalvingUnit, NoResidual, ResidualUnit)},
   probes |-> {Measured(HalvingUnit, NoResidual, 0)}]

Next == NextWith(RunEnv)

Spec == Init /\ [][Next]_vars

\* run() is one thread: the step it stands at is taken once its collaborators return
FairSpec == Spec /\ WF_vars(Next)

(* ------------------------------------------------------------------ *)
(* One watchdog cycle, observed from the head of the inner loop        *)
(* ------------------------------------------------------------------ *)

\* the first value of barrier_size below which fraction_to_boundary leaves .8
RECURSIVE FirstBelow(_, _)
FirstBelow(barrier, level) ==
  IF barrier < level THEN barrier ELSE FirstBelow(next_barrier_size(barrier), level)

CycleBarriers ==
  {initial_barrier_size, FirstBelow(initial_barrier_size, Unit - min_fraction_to_boundary),
   min_barrier_size}

\* run() at the head of the inner loop, one iteration short of the cap, after
\* a cycle whose last step left the state where it was
InitCycle(states, barriers, penalties) ==
  /\ pc = "inner_test"
  /\ barrier_size \in barriers
  /\ iteration_number = IterationCap - 1
  /\ converged = FALSE
  /\ found_step = FALSE
  /\ k = 0
  /\ current_state \in states
  /\ nonlinear_solution = current_state
  /\ current_step = ZeroStep
  /\ watchdog_state = NoVector
  /\ watchdog_step = ZeroStep
  /\ watchdog_probe = NoIntegrals
  /\ goal_merit = Num(0)
  /\ stretch_state = NoVector
  /\ penalty_multiplier \in penalties
  /\ linear_solution = ZeroStep
  /\ assembled = NotAssembled
  /\ ts = NoFrame
  /\ solver_calls = iteration_number

\* the solver returns steps toward and away from the bounds
StepEnv ==
  [steps |-> {ZeroStep,
              Step(0 - 2 * Grid, 0 - 4 * Grid, 0 - 2 * Grid, 0 - 4 * Grid),
              Step(Grid, 0, 0 - 2 * Grid, 0),
              Step(0, Grid, 0, 0 - 4 * Grid)},
   newton |-> {<<0, 0>>},
   integrals |-> {Measured(0, ElasticityResidual, ResidualUnit),
                  Measured(2 * HalvingUnit, ElasticityResidual, ResidualUnit)},
   probes |-> {Measured(HalvingUnit, ElasticityResidual, ResidualUnit)}]

StepStates ==
  {Vector(Entries(InitialSolution), i) : i \in StepEnv.integrals}

InitStep == InitCycle(StepStates, CycleBarriers, {Num(1)})

NextStep == NextWith(StepEnv)

SpecStep == InitStep /\ [][NextStep]_vars

\* the integrals return merits above, at and below the goal, and the
\* assembled system moves the penalty multiplier
MeritEnv ==
  [steps |-> {ZeroStep},
   newton |-> {<<0, 0>>, <<0, HalvingUnit>>, <<2 * HalvingUnit, HalvingUnit>>},
   integrals |-> {Measured(0, ElasticityResidual, ResidualUnit),
                  Measured(HalvingUnit, ElasticityResidual, ResidualUnit),
                  Measured(2 * HalvingUnit, ElasticityResidual, ResidualUnit),
                  Measured(HalvingUnit, NoResidual, 0)},
   probes |-> {Measured(HalvingUnit, ElasticityResidual, ResidualUnit),
               Measured(2 * HalvingUnit, NoResidual, 0)}]

MeritStates ==
  {Vector(Entries(InitialSolution), i) : i \in MeritEnv.integrals}

InitMerit == InitCycle(MeritStates, {initial_barrier_size}, {Num(1)})

NextMerit == NextWith(MeritEnv)

SpecMerit == InitMerit /\ [][NextMerit]_vars

(* ------------------------------------------------------------------ *)
(* check_convergence at the end of a cycle, for chosen residuals       *)
(* ------------------------------------------------------------------ *)

\* .05, .2, the first and the last barrier_size of run()
ConvergenceBarriers ==
  {5 * (Unit \div 100), 2 * (Unit \div 10), min_barrier_size, initial_barrier_size}

\* no residual, .001, and the norms next to each threshold
ConvergenceNorms ==
  {0, ResidualUnit \div 1000}
    \cup UNION {{b - 1, b, b + 1} : b \in ConvergenceBarriers}

\* run() at the end of a cycle that accepted its first step
InitConvergence ==
  /\ pc = "end_cycle"
  /\ barrier_size \in ConvergenceBarriers
  /\ iteration_number = 1
  /\ converged = FALSE
  /\ found_step = TRUE
  /\ k = 0
  /\ \E norm \in ConvergenceNorms :
        current_state = Vector(Entries(InitialSolution), Measured(0, NoResidual, norm))
  /\ nonlinear_solution = InitialSolution
  /\ current_step = ZeroStep
  /\ watchdog_state = InitialSolution
  /\ watchdog_step = ZeroStep
  /\ watchdog_probe = Integrals(InitialSolution)
  /\ goal_merit = exact_merit(InitialSolution, Num(1))
  /\ stretch_state = NoVector
  /\ penalty_multiplier = Num(1)
  /\ linear_solution = ZeroStep
  /\ assembled = [hess_part |-> 0, grad_part |-> 0,
                  constraint_norm |-> constraint_norm(InitialSolution)]
  /\ ts = NoFrame
  /\ solver_calls = iteration_number

NextConvergence == EndCycle

SpecConvergence == InitConvergence /\ [][NextConvergence]_vars

(* ------------------------------------------------------------------ *)
(* One cycle and the barrier update after it, for chosen barrier sizes *)
(* ------------------------------------------------------------------ *)

\* 25, 1, .32768, .2 and the value next below it, .1, .001, .0005, .00001, 0
BarrierSizes ==
  {initial_barrier_size, Unit, 32768 * (Unit \div 100000), 2 * (Unit \div 10),
   2 * (Unit \div 10) - 1, Unit \div 10, Unit \div 1000, min_barrier_size,
   Unit - max_fraction_to_boundary, 0}

\* the solver returns a step toward the bounds
BarrierEnv ==
  [steps |-> {Step(0 - 2 * Grid, 0 - 4 * Grid, 0 - 2 * Grid, 0 - 4 * Grid)},
   newton |-> {<<0, 0>>},
   integrals |-> {Measured(0, ElasticityResidual, ResidualUnit),
                  Measured(2 * HalvingUnit, ElasticityResidual, ResidualUnit)},
   probes |-> {Measured(HalvingUnit, ElasticityResidual, ResidualUnit)}]

InitBarrier ==
  InitCycle({Vector(Entries(InitialSolution), Measured(0, ElasticityResidual, ResidualUnit))},
            BarrierSizes, {Num(1)})

NextBarrier == NextWith(BarrierEnv)

SpecBarrier == InitBarrier /\ [][NextBarrier]_vars

(* ------------------------------------------------------------------ *)
(* Properties                                                          *)
(* ------------------------------------------------------------------ *)

\* every entry of the four slack and slack-multiplier blocks is positive
StrictlyFeasible(v) ==
  /\ v.density_lower_slack > 0
  /\ v.density_lower_slack_multiplier > 0
  /\ v.density_upper_slack > 0
  /\ v.density_upper_slack_multiplier > 0

\* C1: whatever steps the solver returns and whatever the watchdog and the
\* backtracking decide, every entry of the lower and upper slack blocks and of
\* their multiplier blocks of current_state is strictly positive each time
\* run() has assigned it.
C1_FeasibilityKept == StrictlyFeasible(current_state)

\* a cycle that ended by backtracking along a step whose full length would
\* have carried the upper slack below zero
C1_ClippedStepTaken ==
  /\ pc = "end_cycle"
  /\ ~found_step
  /\ nonlinear_solution.density_upper_slack + linear_solution.density_upper_slack < 0
  /\ current_state.density_upper_slack < nonlinear_solution.density_upper_slack

\* C2: for the state and the step of the latest call of find_max_step and
\* every barrier size, calculate_max_step_size returns a pair (s, z) with both
\* members in [0, 1] such that tau * state + s * step is non-negative on the two
\* slack blocks and tau * state + z * step is non-negative on the two
\* multiplier blocks, tau being the fraction-to-boundary parameter.
C2_MaxStepSizeInBounds ==
  \A b \in CycleBarriers :
    LET sizes == calculate_max_step_size(nonlinear_solution, linear_solution, b)
        tau == fraction_to_boundary(b)
    IN /\ 0 <= sizes.first /\ sizes.first <= BisectUnit
       /\ 0 <= sizes.second /\ sizes.second <= BisectUnit
       /\ tau * nonlinear_solution.density_lower_slack * BisectUnit
            + sizes.first * linear_solution.density_lower_slack * Unit >= 0
       /\ tau * nonlinear_solution.density_upper_slack * BisectUnit
            + sizes.first * linear_solution.density_upper_slack * Unit >= 0
       /\ tau * nonlinear_solution.density_lower_slack_multiplier * BisectUnit
            + sizes.second * linear_solution.density_lower_slack_multiplier * Unit >= 0
       /\ tau * nonlinear_solution.density_upper_slack_multiplier * BisectUnit
            + sizes.second * linear_solution.density_upper_slack_multiplier * Unit >= 0

\* find_max_step has cut a step short of its full length, the slack part
\* by more than the multiplier part
C2_StepCutShort ==
  LET sizes == calculate_max_step_size(nonlinear_solution, linear_solution, barrier_size)
  IN /\ pc = "speculate"
     /\ k > 0
     /\ 0 < sizes.first
     /\ sizes.first < BisectUnit - 1
     /\ sizes.first < sizes.second
     /\ linear_solution.density_upper_slack < 0

\* the step is one that calls find_max_step
CallsFindMaxStep ==
  \/ pc = "speculate"
  \/ pc = "backtrack"
  \/ pc = "decide" /\ ts'.caller = "stretch_state"

\* C3: the penalty multiplier is never below 1 and never decreases; a call of
\* find_max_step leaves it at the trial value when the trial value is greater
\* than the previous one and leaves it unchanged otherwise, and no other step
\* of run(), the barrier update included, changes it.
C3_PenaltyRatchet ==
  /\ [](penalty_multiplier.c # "nan" /\ ~FLt[penalty_multiplier, Num(1)])
  /\ [][LET trial == test_penalty_multiplier(assembled'.hess_part, assembled'.grad_part,
                                             assembled'.constraint_norm)
        IN /\ ~FLt[penalty_multiplier', penalty_multiplier]
           /\ IF CallsFindMaxStep /\ FGt[trial, penalty_multiplier]
              THEN penalty_multiplier' = trial
              ELSE penalty_multiplier' = penalty_multiplier]_vars

\* the barrier has been reduced with a raised penalty multiplier in force, the
\* last call's trial value having been too small to replace it
C3_RaisedAndKept ==
  /\ pc = "outer_test"
  /\ barrier_size < initial_barrier_size
  /\ IsNum(penalty_multiplier)
  /\ FGt[penalty_multiplier, Num(1)]
  /\ FLt[test_penalty_multiplier(assembled.hess_part, assembled.grad_part,
                                 assembled.constraint_norm), penalty_multiplier]

\* C4: barrier_size starts at 25, never increases from one pass of the outer
\* loop to the next, is never below min_barrier_size, and once equal to
\* min_barrier_size stays equal to it.
C4_BarrierSchedule ==
  /\ barrier_size = initial_barrier_size
  /\ [](barrier_size >= min_barrier_size)
  /\ [][/\ barrier_size' <= barrier_size
        /\ barrier_size = min_barrier_size => barrier_size' = min_barrier_size]_vars

\* a pass of the outer loop ends with barrier_size already at the floor
C4_UpdateAtFloor ==
  /\ pc = "barrier_update"
  /\ barrier_size = min_barrier_size

\* C5: when run() has left the outer loop, iteration_number has reached the cap
\* or barrier_size equals min_barrier_size and check_convergence holds of
\* current_state at that barrier_size.
C5_ExitCondition ==
  pc \in {"done", "exit"} =>
    \/ iteration_number >= IterationCap
    \/ /\ barrier_size = min_barrier_size
       /\ check_convergence(current_state, barrier_size)

\* the loop left below the cap, at the floor with a converged state
C5_ExitByConvergence ==
  /\ pc = "done"
  /\ iteration_number < IterationCap
  /\ barrier_size = min_barrier_size
  /\ check_convergence(current_state, barrier_size)

\* C6: when every call of the assembler, the solver and the residual
\* evaluation returns, run() leaves the outer loop, whatever those calls
\* return and even if check_convergence never holds.
C6_RunTerminates == <>(pc = "done")

\* the loop left by the cap alone, the last state not converged
C6_StoppedByCap ==
  /\ pc = "done"
  /\ iteration_number >= IterationCap
  /\ ~check_convergence(current_state, barrier_size)
  /\ barrier_size > min_barrier_size

\* merit(watchdog_state) + descent_requirement * merit_derivative after the
\* step in progress, the derivative the forward difference over .0001 of the step
GoalAfterStep ==
  LET watchdog_merit == exact_merit(watchdog_state, penalty_multiplier')
      probe_merit == exact_merit(watchdog_probe', penalty_multiplier')
      derivative == FTimes[FSub[probe_merit, watchdog_merit], descent_requirement_inverse, 1]
  IN FAdd[watchdog_merit, FTimes[derivative, 1, descent_requirement_inverse]]

\* the first speculative step of a cycle at barrier_size 25 is accepted at once
AcceptedAtOnce ==
  /\ pc' = "end_cycle"
  /\ found_step'
  /\ iteration_number' = iteration_number + 1

\* C7 as stated: in a cycle at barrier_size 25, a first speculative step with
\* merit(watchdog_state + step) < merit(watchdog_state) is accepted at once and
\* costs exactly one iteration.
C7_Original ==
  [][(/\ pc = "speculate" /\ k = 0 /\ barrier_size = initial_barrier_size
      /\ FLt[exact_merit(current_state', penalty_multiplier'),
             exact_merit(watchdog_state, penalty_multiplier')])
     => AcceptedAtOnce]_vars

\* C7: in a cycle at barrier_size 25, a first speculative step whose merit is
\* below the goal merit(watchdog_state) + descent_requirement * merit_derivative
\* is accepted at once and costs exactly one iteration: no further speculative
\* step, no backtracking.
C7_FirstStepAccepted ==
  [][(/\ pc = "speculate" /\ k = 0 /\ barrier_size = initial_barrier_size
      /\ FLt[exact_merit(current_state', penalty_multiplier'), GoalAfterStep])
     => AcceptedAtOnce]_vars

\* a cycle at barrier_size 25 has ended on its first speculative step, which
\* lowered the merit
C7_AcceptedFirstStep ==
  /\ pc = "end_cycle"
  /\ found_step
  /\ k = 0
  /\ barrier_size = initial_barrier_size
  /\ iteration_number = IterationCap
  /\ FLt[exact_merit(current_state, penalty_multiplier),
         exact_merit(watchdog_state, penalty_multiplier)]

\* stretch_state is made the current state at the cost of max_uphill_steps + 1
StretchStateTaken ==
  /\ current_state' = stretch_state
  /\ iteration_number' = iteration_number + max_uphill_steps + 1
  /\ pc' = "end_cycle"

\* C8 as stated: after max_uphill_steps speculative steps that missed the goal,
\* merit(stretch_state) < merit(watchdog_state) makes stretch_state the current
\* state and costs max_uphill_steps + 1 iterations.
C8_Original ==
  [][(/\ pc = "decide"
      /\ FLt[calculate_exact_merit(stretch_state, barrier_size),
             calculate_exact_merit(watchdog_state, barrier_size)])
     => StretchStateTaken]_vars

\* C8: after max_uphill_steps speculative steps that missed the goal, if
\* merit(stretch_state) < merit(watchdog_state) and, besides,
\* merit(current_state) < merit(watchdog_state) or merit(stretch_state) is below
\* the goal merit, then stretch_state becomes the current state and
\* iteration_number grows by max_uphill_steps + 1.
C8_StretchAccepted ==
  [][(/\ pc = "decide"
      /\ FLt[calculate_exact_merit(stretch_state, barrier_size),
             calculate_exact_merit(watchdog_state, barrier_size)]
      /\ \/ FLt[calculate_exact_merit(current_state, barrier_size),
                calculate_exact_merit(watchdog_state, barrier_size)]
         \/ FLt[calculate_exact_merit(stretch_state, barrier_size), goal_merit])
     => StretchStateTaken]_vars

\* a cycle has ended by taking a stretch_state of smaller merit than
\* watchdog_state, max_uphill_steps + 1 iterations later
C8_StretchTaken ==
  /\ pc = "end_cycle"
  /\ ~found_step
  /\ current_state = stretch_state
  /\ iteration_number = IterationCap - 1 + max_uphill_steps + 1
  /\ FLt[calculate_exact_merit(stretch_state, barrier_size),
         calculate_exact_merit(watchdog_state, barrier_size)]

\* C9: the value check_convergence returns at the end of a cycle is true
\* exactly when the l1 norm of the residual is below 1e-2 * barrier_size: a norm
\* of .001 gives true at barrier_size .2 and false at .05, and a norm equal to
\* 1e-2 * barrier_size gives false.
C9_ConvergenceThreshold ==
  pc = "inner_test" =>
    /\ converged <=> (current_state.rhs_l1 * 100 < barrier_size * (ResidualUnit \div Unit))
    /\ (current_state.rhs_l1 = ResidualUnit \div 1000 /\ barrier_size = 2 * (Unit \div 10))
         => converged
    /\ (current_state.rhs_l1 = ResidualUnit \div 1000 /\ barrier_size = 5 * (Unit \div 100))
         => ~converged
    /\ current_state.rhs_l1 = barrier_size => ~converged

\* check_convergence has returned true for the norm .001 at barrier_size .2
C9_ConvergedExample ==
  /\ pc = "inner_test"
  /\ converged
  /\ current_state.rhs_l1 = ResidualUnit \div 1000
  /\ barrier_size = 2 * (Unit \div 10)

ReturnsScaledStep ==
  LET returned == PlusScaled(ts.state, ts.step_size, HalvingUnit, ts.max_step)
  IN IF ts.caller = "current_state"
     THEN Entries(stretch_state') = returned
     ELSE Entries(current_state') = returned

\* C11: in take_scaled_step the step size starts at 1, is never increased and
\* is halved at most MaxHalvings times, so that it is one of 1, 1/2, ...,
\* 2^-MaxHalvings, and the state returned is state + step_size * max_step for
\* the state and the step of the call.
C11_ScaledStep ==
  /\ [](pc \in {"take_scaled_step", "return_scaled_step"} =>
          /\ ts.k \in 0..MaxHalvings
          /\ ts.step_size > 0
          /\ ts.step_size * 2^ts.k = HalvingUnit)
  /\ [][/\ (pc # "take_scaled_step" /\ pc' = "take_scaled_step")
             => (ts'.step_size = HalvingUnit /\ ts'.k = 0)
        /\ pc = "take_scaled_step"
             => /\ ts'.step_size <= ts.step_size
                /\ ts'.state = ts.state
                /\ ts'.max_step = ts.max_step
        /\ pc = "return_scaled_step"
             => ReturnsScaledStep]_vars

\* take_scaled_step is about to return a step it has halved in every pass
C11_HalvedToTheEnd ==
  /\ pc = "return_scaled_step"
  /\ ~ts.found
  /\ ts.k = MaxHalvings
  /\ ts.step_size = 1
  /\ ts.max_step # ZeroStep

\* C12: a call of find_max_step that computes constraint_norm = 0 skips the
\* update of the penalty multiplier: the multiplier keeps its value, whatever
\* grad_part and hess_part are.
C12_DegenerateUpdateSkipped ==
  [][(CallsFindMaxStep /\ assembled'.constraint_norm = 0)
       => penalty_multiplier' = penalty_multiplier]_vars

\* the step sizes the bisection tests while its low end is 0: 1/2, 1/4, ...
TestedFromZero == {BisectUnit \div 2^j : j \in 1..BisectionIters}

\* C13 as stated: for the state and the step of the latest call of
\* find_max_step, calculate_max_step_size returns a zero length only if the
\* zero step itself fails the test at tau * state, and for a strictly feasible
\* state the lengths returned are not both zero.
C13_Original ==
  \A b \in CycleBarriers :
    LET sizes == calculate_max_step_size(nonlinear_solution, linear_solution, b)
        tau == fraction_to_boundary(b)
    IN /\ sizes.first = 0 => ~accept_s(tau, nonlinear_solution, 0, linear_solution)
       /\ sizes.second = 0 => ~accept_z(tau, nonlinear_solution, 0, linear_solution)
       /\ StrictlyFeasible(nonlinear_solution) => ~(sizes.first = 0 /\ sizes.second = 0)

\* C13: calculate_max_step_size returns a zero length for the slacks, or for
\* the multipliers, exactly when the test fails at every step size the
\* bisection tries from a low end of 0, the halves 1/2, 1/4, ... down to
\* 2^-BisectionIters; the zero step is never tested. For a strictly feasible
\* state the length is positive whenever the smallest of these passes.
C13_ZeroOnlyBelowResolution ==
  \A b \in CycleBarriers :
    LET sizes == calculate_max_step_size(nonlinear_solution, linear_solution, b)
        tau == fraction_to_boundary(b)
    IN /\ sizes.first = 0
            <=> \A s \in TestedFromZero :
                  ~accept_s(tau, nonlinear_solution, s, linear_solution)
       /\ sizes.second = 0
            <=> \A z \in TestedFromZero :
                  ~accept_z(tau, nonlinear_solution, z, linear_solution)
       /\ (StrictlyFeasible(nonlinear_solution)
             /\ accept_s(tau, nonlinear_solution, 1, linear_solution))
            => sizes.first > 0
       /\ (StrictlyFeasible(nonlinear_solution)
             /\ accept_z(tau, nonlinear_solution, 1, linear_solution))
            => sizes.second > 0

\* find_max_step has returned the lengths (0, 0) for a strictly feasible state
\* and a step too long for the smallest step size tested
C13_ZeroLengthsReturned ==
  LET sizes == calculate_max_step_size(nonlinear_solution, linear_solution, barrier_size)
  IN /\ pc = "speculate"
     /\ k > 0
     /\ StrictlyFeasible(nonlinear_solution)
     /\ linear_solution # ZeroStep
     /\ sizes.first = 0
     /\ sizes.second = 0

\* C14: the vector output_results writes after a watchdog cycle and the vector
\* write_as_stl exports after the loop have the entries of the current_state
\* the cycle accepted.
C14_PersistsCurrentState ==
  /\ pc = "end_cycle" => Entries(output_results) = Entries(current_state)
  /\ pc = "done" => Entries(write_as_stl) = Entries(current_state)

\* the members of the optimizer and the locals of run() that outlive a cycle
OptimizerState ==
  <<current_state, penalty_multiplier, barrier_size, iteration_number,
    nonlinear_solution, linear_solution, assembled>>

\* C15: the steps of run() that consist of calls of calculate_exact_merit and
\* check_convergence only (a pass of the loop of take_scaled_step, the test at
\* the end of a cycle, the condition of the outer loop) leave current_state,
\* penalty_multiplier, barrier_size, iteration_number and the assembled
\* matrix, residual and step unchanged, and watchdog_state as well as long as
\* it is in scope.
C15_MeritAndConvergencePure ==
  [][/\ pc \in {"take_scaled_step", "outer_test"}
          => UNCHANGED <<OptimizerState, watchdog_state>>
     /\ pc = "end_cycle" => UNCHANGED OptimizerState]_vars

\* a cycle has gone through the merit tests of take_scaled_step, with a raised
\* penalty multiplier, and check_convergence has returned true at its end
C15_BothCalled ==
  /\ pc = "inner_test"
  /\ converged
  /\ iteration_number > IterationCap - 1 + max_uphill_steps
  /\ FGt[penalty_multiplier, Num(1)]
  /\ constraint_norm(current_state) # assembled.constraint_norm

\* C16: a pass k of the speculative loop, k in 0..max_uphill_steps - 1, adds
\* the step to current_state before any merit test, sets goal_merit to
\* merit(watchdog_state) + descent_requirement * the forward difference along
\* watchdog_step, and, when the merit of the new state is below goal_merit,
\* ends the cycle with found_step and k + 1 more iterations, no backtracking
\* in between; otherwise the cycle goes on and counts nothing yet.
C16_SpeculativeAcceptance ==
  /\ [](pc = "speculate" => k \in 0..(max_uphill_steps - 1))
  /\ [][pc = "speculate" =>
          /\ Entries(current_state') = PlusScaled(current_state, 1, 1, current_step')
          /\ goal_merit' = GoalAfterStep
          /\ IF FLt[exact_merit(current_state', penalty_multiplier'), goal_merit']
             THEN /\ pc' = "end_cycle"
                  /\ found_step'
                  /\ iteration_number' = iteration_number + k + 1
             ELSE /\ pc' \in {"speculate", "backtrack"}
                  /\ ~found_step'
                  /\ iteration_number' = iteration_number]_vars

\* a cycle has ended by accepting a speculative step later than the first
C16_AcceptedLater ==
  /\ pc = "end_cycle"
  /\ found_step
  /\ k >= 2
  /\ iteration_number = IterationCap - 1 + k + 1
  /\ current_step # ZeroStep

\* the step in progress makes run() enter if (!found_step)
EntersBacktracking == pc # "backtrack" /\ pc' = "backtrack"

\* C17: run() enters the backtracking of a cycle exactly at the pass
\* k = max_uphill_steps - 1 of the speculative loop that fails the test
\* current_merit < goal_merit, all the passes before it having failed; while
\* it backtracks, max_uphill_steps speculative steps have been added since
\* watchdog_state was saved and found_step is false, and a cycle that ends
\* with found_step has added fewer than max_uphill_steps + 1 and never
\* backtracked.
C17_BacktrackingAfterAllFailed ==
  /\ [](pc \in {"backtrack", "take_scaled_step", "return_scaled_step", "decide"}
          => (k = max_uphill_steps /\ ~found_step))
  /\ [](pc = "end_cycle" => (found_step <=> k < max_uphill_steps))
  /\ [][EntersBacktracking
          <=> /\ pc = "speculate"
              /\ k = max_uphill_steps - 1
              /\ ~FLt[exact_merit(current_state', penalty_multiplier'), goal_merit']]_vars

\* run() stands at if (!found_step) after speculative steps that moved the state
C17_AllStepsFailed ==
  /\ pc = "backtrack"
  /\ k = max_uphill_steps
  /\ Entries(current_state) # Entries(watchdog_state)

\* C18: stretch_state is what take_scaled_step returns for the current_state
\* at the end of the speculative steps and the step find_max_step has just
\* computed at it; when merit(current_state) < merit(watchdog_state) or
\* merit(stretch_state) < goal_merit, stretch_state becomes the current state
\* and iteration_number grows by max_uphill_steps + 1 = 9.
C18_FirstBranch ==
  /\ max_uphill_steps + 1 = 9
  /\ [][/\ (pc = "return_scaled_step" /\ ts.caller = "current_state")
             => /\ Entries(nonlinear_solution) = Entries(current_state)
                /\ Entries(stretch_state') =
                     PlusScaled(current_state, ts.step_size, HalvingUnit, current_step)
        /\ (/\ pc = "decide"
            /\ \/ FLt[exact_merit(current_state, penalty_multiplier),
                      exact_merit(watchdog_state, penalty_multiplier)]
               \/ FLt[exact_merit(stretch_state, penalty_multiplier), goal_merit])
             => /\ current_state' = stretch_state
                /\ iteration_number' = iteration_number + 9
                /\ pc' = "end_cycle"]_vars

\* a cycle has ended in the first branch on the strength of
\* merit(stretch_state) < goal_merit alone
C18_TakenBelowGoal ==
  /\ pc = "end_cycle"
  /\ ~found_step
  /\ current_state = stretch_state
  /\ iteration_number = IterationCap - 1 + 9
  /\ FLt[exact_merit(stretch_state, penalty_multiplier), goal_merit]
  /\ ~FLt[exact_merit(stretch_state, penalty_multiplier),
          exact_merit(watchdog_state, penalty_multiplier)]

\* neither merit(current_state) < merit(watchdog_state) nor
\* merit(stretch_state) < goal_merit
FirstBranchRefused ==
  /\ ~FLt[exact_merit(current_state, penalty_multiplier),
          exact_merit(watchdog_state, penalty_multiplier)]
  /\ ~FLt[exact_merit(stretch_state, penalty_multiplier), goal_merit]

\* C19: when the condition of the first branch fails and merit(stretch_state)
\* > merit(watchdog_state), run() calls take_scaled_step(watchdog_state,
\* watchdog_step) without a new Newton step, and the state it returns,
\* watchdog_state + c * watchdog_step with c in (0, 1], becomes the current
\* state, the speculative steps being discarded; iteration_number grows by
\* max_uphill_steps + 1 = 9.
C19_Rollback ==
  [][/\ (/\ pc = "decide"
         /\ FirstBranchRefused
         /\ FGt[exact_merit(stretch_state, penalty_multiplier),
                exact_merit(watchdog_state, penalty_multiplier)])
          => /\ pc' = "take_scaled_step"
             /\ ts'.caller = "watchdog_state"
             /\ ts'.state = watchdog_state
             /\ ts'.max_step = watchdog_step
             /\ UNCHANGED <<nonlinear_solution, linear_solution, penalty_multiplier,
                            iteration_number, current_state>>
     /\ (pc = "return_scaled_step" /\ ts.caller = "watchdog_state")
          => /\ \E c \in 1..HalvingUnit :
                  Entries(current_state') =
                    PlusScaled(watchdog_state, c, HalvingUnit, watchdog_step)
             /\ iteration_number' = iteration_number + 9
             /\ max_uphill_steps + 1 = 9
             /\ pc' = "end_cycle"]_vars

\* a cycle has ended by a scaled step from watchdog_state that moved the state
\* elsewhere than the speculative steps had
C19_RolledBack ==
  /\ pc = "end_cycle"
  /\ ~found_step
  /\ iteration_number = IterationCap - 1 + 9
  /\ FGt[exact_merit(stretch_state, penalty_multiplier),
         exact_merit(watchdog_state, penalty_multiplier)]
  /\ watchdog_step # ZeroStep
  /\ Entries(current_state) # Entries(watchdog_state)
  /\ Entries(current_state) # Entries(stretch_state)
  /\ Entries(current_state) # Entries(nonlinear_solution)

\* the branches the step in progress takes, among the three after stretch_state
BranchTaken ==
  {b \in {1, 2, 3} :
     \/ b = 1 /\ pc' = "end_cycle" /\ current_state' = stretch_state
     \/ b = 2 /\ pc' = "take_scaled_step" /\ ts'.caller = "watchdog_state"
     \/ b = 3 /\ pc' = "take_scaled_step" /\ ts'.caller = "stretch_state"}

\* C20: when the condition of the first branch fails and merit(stretch_state)
\* is not above merit(watchdog_state), a tie included, find_max_step computes
\* a step at stretch_state, take_scaled_step scales it, the state it returns
\* becomes the current state and iteration_number grows by
\* max_uphill_steps + 2 = 10; each backtracking takes exactly one of the three
\* branches.
C20_ThirdBranch ==
  [][/\ (/\ pc = "decide"
         /\ FirstBranchRefused
         /\ ~FGt[exact_merit(stretch_state, penalty_multiplier),
                 exact_merit(watchdog_state, penalty_multiplier)])
          => /\ BranchTaken = {3}
             /\ nonlinear_solution' = stretch_state
             /\ ts'.state = stretch_state
             /\ ts'.max_step = max_step(stretch_state, linear_solution', barrier_size)
             /\ UNCHANGED <<iteration_number, current_state>>
     /\ (pc = "return_scaled_step" /\ ts.caller = "stretch_state")
          => /\ \E c \in 1..HalvingUnit :
                  Entries(current_state') =
                    PlusScaled(stretch_state, c, HalvingUnit, ts.max_step)
             /\ iteration_number' = iteration_number + 10
             /\ max_uphill_steps + 2 = 10
             /\ pc' = "end_cycle"
     /\ pc = "decide" => Cardinality(BranchTaken) = 1]_vars

\* a cycle has ended in the third branch after a tie of merit(stretch_state)
\* and merit(watchdog_state), by a step that moved the state
C20_TakenOnTie ==
  /\ pc = "end_cycle"
  /\ ~found_step
  /\ iteration_number = IterationCap - 1 + 10
  /\ exact_merit(stretch_state, penalty_multiplier)
       = exact_merit(watchdog_state, penalty_multiplier)
  /\ IsNum(exact_merit(stretch_state, penalty_multiplier))
  /\ Entries(current_state) # Entries(stretch_state)

\* the merit test of take_scaled_step holds of the vector the step in progress
\* returns, at the step size it returns it for
ReturnedPassesTest ==
  LET returned == IF ts.caller = "current_state" THEN stretch_state' ELSE current_state'
  IN FLt[exact_merit(returned, penalty_multiplier),
         required_merit(ts.state, ts.probe, penalty_multiplier, ts.step_size, HalvingUnit)]

\* C21: take_scaled_step returns state + c * step for the first size c of 1,
\* 1/2, 1/4, ... at which merit(state + c * step) < merit(state) + c *
\* descent_requirement * derivative holds, every larger size having failed
\* the test; the derivative is the forward difference over .0001 of the step.
C21_FirstPassingSize ==
  [][pc = "return_scaled_step"
       => /\ ts.step_size * 2^ts.k = HalvingUnit
          /\ ReturnsScaledStep
          /\ ReturnedPassesTest]_vars

\* the smallest step size the loop of take_scaled_step tests
SmallestTestedSize == HalvingUnit \div 2^(MaxHalvings - 1)

\* C22: when every pass of the loop of take_scaled_step has failed the merit
\* test, the function still returns, and the state it returns is state +
\* step_size * step for the smallest step size that was tested.
C22_SmallestTestedSizeUsed ==
  [][(pc = "return_scaled_step" /\ ~ts.found)
       => /\ pc' \in {"decide", "end_cycle"}
          /\ LET returned == PlusScaled(ts.state, SmallestTestedSize, HalvingUnit,
                                        ts.max_step)
             IN IF ts.caller = "current_state"
                THEN Entries(stretch_state') = returned
                ELSE Entries(current_state') = returned]_vars

\* v with the two multiplier entries set to z
WithMultipliers(v, z) ==
  [v EXCEPT !.density_lower_slack_multiplier = z,
            !.density_upper_slack_multiplier = z]

\* v with the two slack entries set to s
WithSlacks(v, s) ==
  [v EXCEPT !.density_lower_slack = s, !.density_upper_slack = s]

\* the length for the slacks with other multiplier blocks in state and step
OtherMultipliers(b) ==
  calculate_max_step_size(WithMultipliers(nonlinear_solution, 1),
                          WithMultipliers(linear_solution, 0 - MaxEntry * Grid), b).first

\* the length for the multipliers with other slack blocks in state and step
OtherSlacks(b) ==
  calculate_max_step_size(WithSlacks(nonlinear_solution, 1),
                          WithSlacks(linear_solution, 0 - MaxEntry * Grid), b).second

\* C23 as stated: for the state in nonlinear_solution and the step in
\* linear_solution, each length calculate_max_step_size returns is the largest
\* length in [0, 1] that passes its non-negativity test, 1 for a step that
\* passes at length 1, and neither length depends on the blocks of the other.
C23_Original ==
  \A b \in CycleBarriers :
    LET sizes == calculate_max_step_size(nonlinear_solution, linear_solution, b)
        tau == fraction_to_boundary(b)
    IN /\ \A s \in 0..BisectUnit :
            accept_s(tau, nonlinear_solution, s, linear_solution) => s <= sizes.first
       /\ \A z \in 0..BisectUnit :
            accept_z(tau, nonlinear_solution, z, linear_solution) => z <= sizes.second
       /\ sizes.first = OtherMultipliers(b)
       /\ sizes.second = OtherSlacks(b)

\* C23: for the state in nonlinear_solution, the step in linear_solution and
\* every barrier size, each length calculate_max_step_size returns is the low end of an
\* interval of width 2^-BisectionIters whose high end has failed the
\* non-negativity test or is the untested length 1, so that the length is
\* below 1 and within 2^-BisectionIters of the largest length that passes
\* (1 - 2^-BisectionIters for a step that passes at length 1); the length for
\* the slacks does not depend on the multiplier blocks nor the length for the
\* multipliers on the slack blocks.
C23_LargestUpToResolution ==
  \A b \in CycleBarriers :
    LET sizes == calculate_max_step_size(nonlinear_solution, linear_solution, b)
        tau == fraction_to_boundary(b)
    IN /\ sizes.first <= BisectUnit - 1
       /\ sizes.second <= BisectUnit - 1
       /\ sizes.first < BisectUnit - 1
            => ~accept_s(tau, nonlinear_solution, sizes.first + 1, linear_solution)
       /\ sizes.second < BisectUnit - 1
            => ~accept_z(tau, nonlinear_solution, sizes.second + 1, linear_solution)
       /\ accept_s(tau, nonlinear_solution, BisectUnit, linear_solution)
            => sizes.first = BisectUnit - 1
       /\ accept_z(tau, nonlinear_solution, BisectUnit, linear_solution)
            => sizes.second = BisectUnit - 1
       /\ sizes.first = OtherMultipliers(b)
       /\ sizes.second = OtherSlacks(b)

\* find_max_step has left the slacks their full length, returned as the
\* length next below 1, and cut the multipliers shorter
C23_FullAndCutLengths ==
  LET sizes == calculate_max_step_size(nonlinear_solution, linear_solution, barrier_size)
      tau == fraction_to_boundary(barrier_size)
  IN /\ pc = "speculate"
     /\ k > 0
     /\ accept_s(tau, nonlinear_solution, BisectUnit, linear_solution)
     /\ sizes.first = BisectUnit - 1
     /\ 0 < sizes.second
     /\ sizes.second < sizes.first

\* C24: the fraction-to-boundary parameter calculate_max_step_size computes
\* from barrier_size is max(.8, min(1 - barrier_size, .99999)), so it lies
\* in [.8, .99999]; it is .8 for barrier_size 25, .9 for .1 and .9995 for .0005.
C24_FractionToBoundary ==
  LET tau == fraction_to_boundary(barrier_size)
      smaller == IF Unit - barrier_size <= max_fraction_to_boundary
                 THEN Unit - barrier_size ELSE max_fraction_to_boundary
      clamped == IF smaller >= min_fraction_to_boundary
                 THEN smaller ELSE min_fraction_to_boundary
  IN /\ tau = clamped
     /\ min_fraction_to_boundary <= tau
     /\ tau <= max_fraction_to_boundary
     /\ barrier_size = 25 * Unit => tau = 8 * (Unit \div 10)
     /\ barrier_size = Unit \div 10 => tau = 9 * (Unit \div 10)
     /\ barrier_size = 5 * (Unit \div 10000) => tau = 9995 * (Unit \div 10000)

\* find_max_step has called calculate_max_step_size with barrier_size .1,
\* and has left a step cut short
C24_CalledAtOneTenth ==
  /\ pc = "speculate"
  /\ k > 0
  /\ barrier_size = Unit \div 10
  /\ fraction_to_boundary(barrier_size) = 9 * (Unit \div 10)
  /\ current_step # ZeroStep
  /\ current_step \notin BarrierEnv.steps

\* C25: the barrier update at the end of a pass of the outer loop sets
\* barrier_size to max(min(.8 * barrier_size, barrier_size^1.2),
\* min_barrier_size): the smaller of the two candidates, then the floor.
C25_BarrierUpdate ==
  [][pc = "barrier_update"
       => LET linear == times_multiplier(barrier_size)
              superlinear == pow_barrier(barrier_size)
              candidate == IF linear <= superlinear THEN linear ELSE superlinear
          IN barrier_size' = IF candidate >= min_barrier_size
                             THEN candidate ELSE min_barrier_size]_vars

\* the update has taken both candidates in turn: .8 * 25 from 25, and
\* .32768^1.2 from .32768
C25_BothCandidatesTaken ==
  /\ pc = "outer_test"
  /\ iteration_number >= IterationCap
  /\ barrier_size \in {times_multiplier(initial_barrier_size),
                       pow_barrier(32768 * (Unit \div 100000))}
  /\ barrier_size \notin BarrierSizes

\* the positions of run() inside a watchdog cycle
InCycle == {"speculate", "backtrack", "take_scaled_step", "return_scaled_step", "decide"}

\* C26: watchdog_state is the value current_state has at the start of the
\* cycle and watchdog_step the step found at k = 0; from then to the end of the
\* cycle neither changes, whatever is assigned to current_state, and
\* stretch_state does not change once take_scaled_step has returned it.
C26_WatchdogCopiesKept ==
  [][/\ (pc = "inner_test" /\ pc' = "speculate") => watchdog_state' = current_state
     /\ (pc = "speculate" /\ k = 0) => watchdog_step' = current_step'
     /\ pc \in InCycle => watchdog_state' = watchdog_state
     /\ (pc \in InCycle /\ ~(pc = "speculate" /\ k = 0)) => watchdog_step' = watchdog_step
     /\ (pc = "decide" \/ (pc \in InCycle /\ ts.caller \in {"watchdog_state", "stretch_state"}))
          => stretch_state' = stretch_state]_vars

\* a cycle has ended in the third branch with current_state moved away from
\* watchdog_state and from stretch_state, and current_step from watchdog_step
C26_CurrentStateReplaced ==
  /\ pc = "end_cycle"
  /\ ~found_step
  /\ watchdog_state # current_state
  /\ watchdog_step # current_step
  /\ stretch_state # NoVector
  /\ Entries(stretch_state) # Entries(current_state)
  /\ Entries(stretch_state) # Entries(watchdog_state)

\* the positions of run() between two watchdog cycles and after the loops
BetweenCycles == {"end_cycle", "inner_test", "barrier_update", "outer_test", "done", "exit"}

\* C27: iteration_number changes only where a watchdog cycle ends, by the
\* number of calls of find_max_step (each one call of solve()) made in that
\* cycle, which is between 1 and max_uphill_steps + 2; so between cycles
\* iteration_number is the number of calls of solve() made so far.
C27_IterationAccounting ==
  /\ [](pc \in BetweenCycles => iteration_number = solver_calls)
  /\ [][iteration_number' # iteration_number
          => /\ pc \in InCycle
             /\ pc' = "end_cycle"
             /\ iteration_number' - iteration_number >= 1
             /\ iteration_number' - iteration_number <= max_uphill_steps + 2]_vars
  /\ [][(pc \in InCycle /\ pc' = "end_cycle") => iteration_number' = solver_calls']_vars

\* a cycle has ended in the third branch, after max_uphill_steps + 2 calls of solve()
C27_TenSolvesCounted ==
  /\ pc = "end_cycle"
  /\ ~found_step
  /\ solver_calls = IterationCap - 1 + max_uphill_steps + 2
  /\ iteration_number = solver_calls

\* C28: a watchdog cycle starts only while iteration_number is below the
\* cap, nothing stops a cycle that has started, and the cycle that reaches the
\* cap may pass it by what it adds: iteration_number is at most the cap - 1
\* plus max_uphill_steps + 2 when run() has left its loops.
C28_CapCheckedBeforeCycle ==
  /\ [][(pc = "inner_test" /\ pc' = "speculate") => iteration_number < IterationCap]_vars
  /\ [](pc \in InCycle => iteration_number < IterationCap)
  /\ [][(pc \in InCycle /\ iteration_number' >= IterationCap)
          => /\ pc' = "end_cycle"
             /\ iteration_number' <= IterationCap - 1 + max_uphill_steps + 2]_vars
  /\ [](pc \in {"done", "exit"}
          => iteration_number <= IterationCap - 1 + max_uphill_steps + 2)

\* run() has left its loops with iteration_number at its largest value
C28_CapPassedByNine ==
  /\ pc = "done"
  /\ iteration_number = IterationCap - 1 + max_uphill_steps + 2

\* C29: barrier_size changes only in the barrier update, which each pass of
\* the outer loop makes once, after its inner loop; the inner loop is entered
\* with converged false and iteration_number below the cap, so that it runs a
\* watchdog cycle in every pass, and it is left only with converged true or
\* the cap reached, after which the update is made in either case.
C29_BarrierUpdatedOncePerPass ==
  /\ [][barrier_size' # barrier_size => (pc = "barrier_update" /\ pc' = "outer_test")]_vars
  /\ [][(pc = "outer_test" /\ pc' = "inner_test")
          => /\ ~converged'
             /\ iteration_number' < IterationCap]_vars
  /\ [][(pc = "inner_test" /\ ~converged /\ iteration_number < IterationCap)
          => pc' = "speculate"]_vars
  /\ [][pc' = "barrier_update"
          => /\ pc = "inner_test"
             /\ converged \/ iteration_number >= IterationCap]_vars
  /\ [][pc = "barrier_update"
          => /\ barrier_size' = next_barrier_size(barrier_size)
             /\ barrier_size > min_barrier_size => barrier_size' < barrier_size]_vars

\* a cycle has started in a pass entered with a current_state of which
\* check_convergence already holds at the new barrier_size
C29_CycleThoughConverged ==
  /\ pc = "speculate"
  /\ k = 0
  /\ barrier_size < initial_barrier_size
  /\ check_convergence(current_state, barrier_size)

\* goal_merit as the speculative loop computes it, at a penalty multiplier
GoalAtPenalty(penalty) == required_merit(watchdog_state, watchdog_probe, penalty, 1, 1)

\* C30: a speculative iteration computes current_merit and goal_merit after
\* its find_max_step, both at the penalty multiplier that call has left; the
\* backtracking does not compute goal_merit again, so the value compared
\* with merit(stretch_state) is the one of the last speculative iteration,
\* whatever the find_max_step of the backtracking does to the penalty
\* multiplier, while the merits of the first condition are all evaluated at
\* the penalty multiplier of the time of the comparison.
C30_GoalMeritOfLastIteration ==
  /\ [][pc = "speculate"
          => /\ goal_merit' = GoalAfterStep
             /\ found_step' <=> FLt[exact_merit(current_state', penalty_multiplier'),
                                    goal_merit']]_vars
  /\ [](pc = "backtrack"
          => /\ k = max_uphill_steps
             /\ goal_merit = GoalAtPenalty(penalty_multiplier))
  /\ [][(pc \in InCycle /\ pc # "speculate") => goal_merit' = goal_merit]_vars
  /\ [][pc = "decide"
          => (pc' = "end_cycle"
                <=> \/ FLt[exact_merit(current_state, penalty_multiplier),
                           exact_merit(watchdog_state, penalty_multiplier)]
                    \/ FLt[exact_merit(stretch_state, penalty_multiplier), goal_merit])]_vars

\* the find_max_step of the backtracking has raised the penalty multiplier, and
\* the first condition is about to compare merit(stretch_state) with a
\* goal_merit that a new evaluation would not give
C30_GoalMeritOutdated ==
  /\ pc = "decide"
  /\ goal_merit # GoalAtPenalty(penalty_multiplier)
  /\ FGt[penalty_multiplier, Num(1)]

====
